---- MODULE Spec2Model ----
(***************************************************************************)
(* Model of SimpleExcelWriter (src/dataGenerator/excel_generator.py): the  *)
(* writer object (its sheet list), the file system it touches (the staging *)
(* directory '<filename>_temp' and the target file self.filename), and the *)
(* pure builders _escape_xml and _create_worksheet.                        *)
(*                                                                         *)
(* Text is a sequence of one-character strings.  The character "SURR"      *)
(* stands for a lone surrogate (such as '\udc80'), which a Python str can  *)
(* hold and which the text file opened by open(path, 'w') cannot encode.   *)
(* An XML document is the sequence of its variable elements; the fixed     *)
(* text around them (declaration, root element) is not represented.  A     *)
(* file that open(path, 'w') created or truncated and that was never       *)
(* written is the empty sequence.  The target file is absent, a complete   *)
(* archive with its entries, or partial: what zipfile left when a write    *)
(* into it raised (its entries are then not tracked).                      *)
(***************************************************************************)
EXTENDS Integers, Sequences, FiniteSets, TLC

VARIABLES
    sheets,     \* self.sheets of the current writer
    staging,    \* the directory f"{self.filename}_temp": [exists, files]
    archive,    \* the file self.filename: [state, entries]
    call,       \* the last call on the writer and how it ended
    ioFaults,   \* how many calls the operating system has failed with OSError
    wsSheet,    \* input of _create_worksheet (worksheet-builder specification)
    wsDoc,      \* output of _create_worksheet
    escIn,      \* input of _escape_xml (escaping specification)
    escOut      \* output of _escape_xml

vars == <<sheets, staging, archive, call, ioFaults, wsSheet, wsDoc, escIn, escOut>>

\* ------------------------------------------------------------------ bounds
\* add_sheet calls on one writer
MaxSheets == 2
\* calls the operating system fails with OSError in one run (a text that
\* cannot be encoded fails every time and is not counted)
MaxFaults == 1
\* length of the texts given to _escape_xml
MaxStrLen == 5
\* data rows of the sheets given to _create_worksheet, and the lengths of
\* their rows and header rows: 0..MaxShort cells, or MaxCols cells
MaxRows == 2
MaxShort == 2
MaxCols == 27

\* -------------------------------------------------------- program constants
ORD_A == 65
ROW_OFFSET == 2
N_MAKEDIRS == 5
N_DESCRIPTORS == 4

\* ------------------------------------------------------------- _escape_xml
\* str.replace(old, new) for a one-character old
RECURSIVE Replace(_, _, _)
Replace(s, old, new) ==
    IF s = <<>> THEN <<>>
    ELSE (IF Head(s) = old THEN new ELSE <<Head(s)>>) \o Replace(Tail(s), old, new)

AMP == <<"&", "a", "m", "p", ";">>
LT == <<"&", "l", "t", ";">>
GT == <<"&", "g", "t", ";">>
QUOT == <<"&", "q", "u", "o", "t", ";">>
APOS == <<"&", "a", "p", "o", "s", ";">>

\* the same replacements with '&' done last instead of first
EscapeAmpLast(text) ==
    Replace(Replace(Replace(Replace(Replace(text,
        "<", LT), ">", GT), "\"", QUOT), "'", APOS), "&", AMP)

_escape_xml(text) ==
    Replace(Replace(Replace(Replace(Replace(text,
        "&", AMP), "<", LT), ">", GT), "\"", QUOT), "'", APOS)

\* ----------------------------------------------------------------- values
\* A cell value or header: a Python object with its type.  num is the value
\* of an int, text the characters of a str or the repr of a float.
IntV(n) == [type |-> "int", num |-> n, text |-> <<>>]
FloatV(repr) == [type |-> "float", num |-> 0, text |-> repr]
StrV(s) == [type |-> "str", num |-> 0, text |-> s]
\* bool is a subclass of int: True is an int of value 1
BoolV(b) == [type |-> "bool", num |-> IF b THEN 1 ELSE 0, text |-> <<>>]
NoneV == [type |-> "NoneType", num |-> 0, text |-> <<>>]

Digit(d) == CASE d = 0 -> "0" [] d = 1 -> "1" [] d = 2 -> "2" [] d = 3 -> "3"
              [] d = 4 -> "4" [] d = 5 -> "5" [] d = 6 -> "6" [] d = 7 -> "7"
              [] d = 8 -> "8" [] d = 9 -> "9"

RECURSIVE NatToStr(_)
NatToStr(n) == IF n < 10 THEN <<Digit(n)>> ELSE NatToStr(n \div 10) \o <<Digit(n % 10)>>

\* str(value), also what an f-string does with {value}
pystr(v) ==
    CASE v.type = "int" -> IF v.num < 0 THEN <<"-">> \o NatToStr(-v.num) ELSE NatToStr(v.num)
      [] v.type = "bool" -> IF v.num = 1 THEN <<"T", "r", "u", "e">>
                            ELSE <<"F", "a", "l", "s", "e">>
      [] v.type = "float" -> v.text
      [] v.type = "str" -> v.text
      [] v.type = "NoneType" -> <<"N", "o", "n", "e">>

IsDigits(s) == s # <<>> /\ \A i \in 1..Len(s) : s[i] \in {Digit(d) : d \in 0..9}

\* isinstance that also takes a str holding a number
IsNumericLoose(v) ==
    v.type \in {"int", "bool", "float"} \/ (v.type = "str" /\ IsDigits(v.text))

\* isinstance(cell_value, (int, float))
IsNumeric(v) == v.type \in {"int", "bool", "float"}

\* -------------------------------------------------------- _create_worksheet
\* chr(65 + col_idx): the character is kept as its code point
col_letter(col_idx) == ORD_A + col_idx

\* <c r="{col_letter}1" t="inlineStr"><is><t>{escaped}</t></is></c>
HeaderCell(col_idx, header) ==
    [r |-> <<col_letter(col_idx), 1>>, t |-> "inlineStr", child |-> "is",
     text |-> _escape_xml(pystr(header))]

DataCell(col_idx, row_num, cell_value) ==
    IF IsNumeric(cell_value)
    THEN [r |-> <<col_letter(col_idx), row_num>>, t |-> "", child |-> "v",
          text |-> pystr(cell_value)]
    ELSE [r |-> <<col_letter(col_idx), row_num>>, t |-> "inlineStr", child |-> "is",
          text |-> _escape_xml(pystr(cell_value))]

\* row numbers that start at 1, on top of the header row
RowNumOffByOne(row_idx) == row_idx + 1

\* row_num = row_idx + 2
RowNum(row_idx) == row_idx + ROW_OFFSET

DataRow(row_idx, row) ==
    [r |-> RowNum(row_idx),
     c |-> [k \in 1..Len(row) |-> DataCell(k - 1, RowNum(row_idx), row[k])]]

\* the <row> elements of <sheetData>, in document order
WorksheetContent(sheet_data) ==
    <<[r |-> 1,
       c |-> [k \in 1..Len(sheet_data.headers) |->
                 HeaderCell(k - 1, sheet_data.headers[k])]]>>
    \o [i \in 1..Len(sheet_data.rows) |-> DataRow(i - 1, sheet_data.rows[i])]

\* -------------------------------------------------------------- file system
\* A path below the staging root (also the archive entry name that
\* os.path.relpath gives it), as <<text before the number, number, text after>>.
CONTENT_TYPES == <<"[Content_Types].xml", 0, "">>
MAIN_RELS == <<"_rels/.rels", 0, "">>
WORKBOOK == <<"xl/workbook.xml", 0, "">>
WORKBOOK_RELS == <<"xl/_rels/workbook.xml.rels", 0, "">>
\* f"{temp_dir}/xl/worksheets/sheet{sheet_num}.xml"
SheetPath(sheet_num) == <<"xl/worksheets/sheet", sheet_num, ".xml">>

IsSheetPath(p) == p[1] = "xl/worksheets/sheet" /\ p[3] = ".xml"

\* the <Override> elements of [Content_Types].xml
content_types ==
    <<[PartName |-> WORKBOOK, ContentType |-> "sheet.main+xml"],
      [PartName |-> SheetPath(1), ContentType |-> "worksheet+xml"]>>

\* the <Relationship> elements of _rels/.rels
main_rels == <<[Id |-> 1, Type |-> "officeDocument", Target |-> WORKBOOK]>>

\* the <sheet> elements of xl/workbook.xml
workbook == <<[name |-> "Sheet1", sheetId |-> 1, rid |-> 1]>>

\* the <Relationship> elements of xl/_rels/workbook.xml.rels
workbook_rels == <<[Id |-> 1, Type |-> "worksheet", Target |-> SheetPath(1)]>>

\* Whether f.write(content) can encode a worksheet document
Encodable(doc) ==
    \A i \in 1..Len(doc) : \A k \in 1..Len(doc[i].c) :
        \A j \in 1..Len(doc[i].c[k].text) : doc[i].c[k].text[j] # "SURR"

\* ------------------------------------------------------------------ inputs
SheetData ==
    [name |-> "Data",
     headers |-> <<StrV(<<"A">>), StrV(<<"B">>)>>,
     rows |-> <<<<IntV(1), StrV(<<"x">>)>>, <<IntV(2), StrV(<<"y">>)>>>>]

\* a second sheet of the same name, without rows, whose header no text file
\* can encode
SheetBad == [name |-> "Data", headers |-> <<StrV(<<"SURR">>)>>, rows |-> <<>>]

SheetPool == {SheetData, SheetBad}

IdleWs == [name |-> "", headers |-> <<>>, rows |-> <<>>]
NotEscaped == [done |-> FALSE, text |-> <<>>]

\* WorksheetContent and Encodable, tabulated for the sheets of the pool
WorksheetOf == [s \in SheetPool |-> WorksheetContent(s)]
EncodableOf == [s \in SheetPool |-> Encodable(WorksheetContent(s))]

\* The parts save() writes, in the order it writes them
Parts(shs) ==
    <<[path |-> CONTENT_TYPES, content |-> content_types, encodable |-> TRUE],
      [path |-> MAIN_RELS, content |-> main_rels, encodable |-> TRUE],
      [path |-> WORKBOOK, content |-> workbook, encodable |-> TRUE],
      [path |-> WORKBOOK_RELS, content |-> workbook_rels, encodable |-> TRUE]>>
    \o [i \in 1..Len(shs) |->
          [path |-> SheetPath(i), content |-> WorksheetOf[shs[i]],
           encodable |-> EncodableOf[shs[i]]]]

\* Index of the first part whose write raises UnicodeEncodeError, 0 if none
FirstBad(parts) ==
    IF \A i \in 1..Len(parts) : parts[i].encodable THEN 0
    ELSE CHOOSE i \in 1..Len(parts) :
            /\ ~parts[i].encodable
            /\ \A j \in 1..(i - 1) : parts[j].encodable

\* The files of the staging tree once parts 1..n are written over it
Written(files, parts, n) ==
    [p \in DOMAIN files \cup {parts[i].path : i \in 1..n} |->
        IF \E i \in 1..n : parts[i].path = p
        THEN parts[CHOOSE i \in 1..n : parts[i].path = p].content
        ELSE files[p]]

\* open(path, 'w') created or truncated the file and nothing was written
Truncated(files, path) ==
    [p \in DOMAIN files \cup {path} |-> IF p = path THEN <<>> ELSE files[p]]

NoFiles == [p \in {} |-> <<>>]

Call(op, exc, at, collided) == [op |-> op, exc |-> exc, at |-> at, collided |-> collided]

\* ------------------------------------------------------------- the writer
Init ==
    /\ sheets = <<>>
    /\ staging = [exists |-> FALSE, files |-> NoFiles]
    /\ archive = [state |-> "absent", entries |-> NoFiles]
    /\ call = Call("__init__", "", "", FALSE)
    /\ ioFaults = 0
    /\ wsSheet = IdleWs /\ wsDoc = <<>> /\ escIn = <<>> /\ escOut = NotEscaped

\* SimpleExcelWriter(filename) for the same filename: a new, empty writer
\* over the file system the earlier ones left
__init__ ==
    /\ sheets' = <<>>
    /\ call' = Call("__init__", "", "", FALSE)
    /\ UNCHANGED <<staging, archive, ioFaults, wsSheet, wsDoc, escIn, escOut>>

add_sheet(sheet) ==
    /\ Len(sheets) < MaxSheets
    /\ sheets' = Append(sheets, sheet)
    /\ call' = Call("add_sheet", "", "", FALSE)
    /\ UNCHANGED <<staging, archive, ioFaults, wsSheet, wsDoc, escIn, escOut>>

\* save(): the k-th os.makedirs raises; the first one cannot when the
\* directory is there (exist_ok=True).  The sub-directories are not tracked:
\* a later makedirs may raise whether or not an earlier save created them.
save_makedirs_fails(k) ==
    /\ ioFaults < MaxFaults
    /\ ioFaults' = ioFaults + 1
    /\ k = 1 => ~staging.exists
    /\ staging' = [staging EXCEPT !.exists = (k > 1)]
    /\ call' = Call("save", "OSError", "makedirs", staging.exists)
    /\ UNCHANGED <<sheets, archive, wsSheet, wsDoc, escIn, escOut>>

\* the same exit with the target opened for writing before the parts are written
save_part_fails_zip_first(k, how) ==
    LET parts == Parts(sheets)
        bad == FirstBad(parts)
    IN  /\ k \in 1..Len(parts)
        /\ \/ how = "encode" /\ k = bad /\ ioFaults' = ioFaults
           \/ how = "io" /\ (bad = 0 \/ k < bad) /\ ioFaults < MaxFaults
                          /\ ioFaults' = ioFaults + 1
        /\ staging' = [exists |-> TRUE,
                       files |-> Truncated(Written(staging.files, parts, k - 1),
                                           parts[k].path)]
        /\ archive' = [state |-> "partial", entries |-> NoFiles]
        /\ call' = Call("save", IF how = "encode" THEN "UnicodeEncodeError" ELSE "OSError",
                        "part", staging.exists)
        /\ UNCHANGED <<sheets, wsSheet, wsDoc, escIn, escOut>>

\* save(): f.write of the k-th part raises, UnicodeEncodeError for a text the
\* file cannot encode or OSError; open(path, 'w') has created or truncated it
save_part_fails(k, how) ==
    LET parts == Parts(sheets)
        bad == FirstBad(parts)
    IN  /\ k \in 1..Len(parts)
        /\ \/ how = "encode" /\ k = bad /\ ioFaults' = ioFaults
           \/ how = "io" /\ (bad = 0 \/ k < bad) /\ ioFaults < MaxFaults
                          /\ ioFaults' = ioFaults + 1
        /\ staging' = [exists |-> TRUE,
                       files |-> Truncated(Written(staging.files, parts, k - 1),
                                           parts[k].path)]
        /\ call' = Call("save", IF how = "encode" THEN "UnicodeEncodeError" ELSE "OSError",
                        "part", staging.exists)
        /\ UNCHANGED <<sheets, archive, wsSheet, wsDoc, escIn, escOut>>

\* save(): zipfile.ZipFile(self.filename, 'w') raises (opened = FALSE), or
\* zipf.write raises after the target was opened
save_zip_fails(opened) ==
    LET parts == Parts(sheets)
    IN  /\ FirstBad(parts) = 0
        /\ ioFaults < MaxFaults
        /\ ioFaults' = ioFaults + 1
        /\ staging' = [exists |-> TRUE,
                       files |-> Written(staging.files, parts, Len(parts))]
        /\ archive' = IF opened THEN [state |-> "partial", entries |-> NoFiles]
                      ELSE archive
        /\ call' = Call("save", "OSError", "zip", staging.exists)
        /\ UNCHANGED <<sheets, wsSheet, wsDoc, escIn, escOut>>

\* save() returns: every file os.walk finds under the staging tree is an
\* entry of the archive, then shutil.rmtree removes the tree
save_ok ==
    LET parts == Parts(sheets)
    IN  /\ FirstBad(parts) = 0
        /\ archive' = [state |-> "complete",
                       entries |-> Written(staging.files, parts, Len(parts))]
        /\ staging' = [exists |-> FALSE, files |-> NoFiles]
        /\ call' = Call("save", "ok", "", staging.exists)
        /\ UNCHANGED <<sheets, ioFaults, wsSheet, wsDoc, escIn, escOut>>

save ==
    \/ \E k \in 1..N_MAKEDIRS : save_makedirs_fails(k)
    \/ \E k \in 1..(N_DESCRIPTORS + MaxSheets), how \in {"io", "encode"} :
          save_part_fails(k, how)
    \/ \E opened \in BOOLEAN : save_zip_fails(opened)
    \/ save_ok

Next ==
    \/ __init__
    \/ \E sheet \in SheetPool : add_sheet(sheet)
    \/ save

Spec == Init /\ [][Next]_vars

\* ---------------------------------------------- the writer's claims (Spec)
FivePaths == {CONTENT_TYPES, MAIN_RELS, WORKBOOK, WORKBOOK_RELS, SheetPath(1)}
Saved == call.op = "save" /\ call.exc = "ok"
SheetEntries(entries) == {p \in DOMAIN entries : IsSheetPath(p)}

\* C1: once save() has returned or raised, on any exit path, the staging
\* directory '<filename>_temp' does not exist.
C1_NoStagingAfterSave == call.op = "save" => ~staging.exists

\* C2: for a writer with exactly one add_sheet call, a successful save()
\* leaves an archive whose entry names are exactly the five legacy parts.
C2_ExactlyFiveEntries ==
    (Saved /\ Len(sheets) = 1) => DOMAIN archive.entries = FivePaths

\* C3: after a successful save() of n sheets the descriptors hold one
\* worksheet override, one sheet entry and one workbook relationship per
\* sheet, numbered 1..n, so that the worksheet parts of the archive and the
\* worksheet parts the descriptors reference are the same.
C3_DescriptorsPerSheet ==
    Saved =>
        LET n == Len(sheets)
            e == archive.entries
            overrides == {e[CONTENT_TYPES][i].PartName : i \in 1..Len(e[CONTENT_TYPES])}
        IN  /\ Len(e[CONTENT_TYPES]) = n + 1
            /\ overrides = {WORKBOOK} \cup {SheetPath(k) : k \in 1..n}
            /\ Len(e[WORKBOOK]) = n
            /\ \A k \in 1..Len(e[WORKBOOK]) :
                   e[WORKBOOK][k].sheetId = k /\ e[WORKBOOK][k].rid = k
            /\ Len(e[WORKBOOK_RELS]) = n
            /\ \A k \in 1..Len(e[WORKBOOK_RELS]) :
                   e[WORKBOOK_RELS][k].Id = k /\ e[WORKBOOK_RELS][k].Target = SheetPath(k)
            /\ SheetEntries(e) = {e[WORKBOOK_RELS][k].Target : k \in 1..Len(e[WORKBOOK_RELS])}

\* C8: a save() called while '<filename>_temp' exists raises an IO error
\* before it writes anything into that directory or into the target.
C8_CollisionRejected ==
    (call.op = "save" /\ call.collided) => (call.exc = "OSError" /\ call.at = "makedirs")

\* C9: after a successful save() of n sheets the worksheet parts of the
\* archive are exactly sheet1.xml .. sheet{n}.xml, and part k is the document
\* built from the k-th sheet added.
C9_WorksheetPartsAreTheSheets ==
    Saved =>
        /\ SheetEntries(archive.entries) = {SheetPath(k) : k \in 1..Len(sheets)}
        /\ \A k \in 1..Len(sheets) :
               /\ SheetPath(k) \in DOMAIN archive.entries
               /\ archive.entries[SheetPath(k)] = WorksheetContent(sheets[k])

\* C10: a save() that fails while writing a package part raises, and leaves
\* the target file as it was (not created, not modified).
C10_TargetUntouchedOnPartFailure ==
    [][(call'.op = "save" /\ call'.at = "part")
          => (call'.exc \in {"OSError", "UnicodeEncodeError"} /\ archive' = archive)]_vars

\* a part could not be encoded while an earlier archive was on disk
C10_Witness ==
    /\ call.op = "save" /\ call.at = "part" /\ call.exc = "UnicodeEncodeError"
    /\ archive.state = "complete"
    /\ Len(sheets) = MaxSheets

\* ------------------------------------------- the escaping specification
\* the five metacharacters, and the letters and ';' of the entity "&lt;"
EscAlphabet == {"&", "<", ">", "\"", "'", "l", "t", ";"}

EscInputs == UNION {[1..n -> EscAlphabet] : n \in 0..MaxStrLen}

EscInit ==
    /\ sheets = <<>>
    /\ staging = [exists |-> FALSE, files |-> NoFiles]
    /\ archive = [state |-> "absent", entries |-> NoFiles]
    /\ call = Call("__init__", "", "", FALSE)
    /\ ioFaults = 0
    /\ wsSheet = IdleWs /\ wsDoc = <<>>
    /\ escIn \in EscInputs
    /\ escOut = NotEscaped

escape_call ==
    /\ ~escOut.done
    /\ escOut' = [done |-> TRUE, text |-> _escape_xml(escIn)]
    /\ UNCHANGED <<sheets, staging, archive, call, ioFaults, wsSheet, wsDoc, escIn>>

EscNext == escape_call

SpecEsc == EscInit /\ [][EscNext]_vars

HasPrefix(s, pre) == Len(s) >= Len(pre) /\ SubSeq(s, 1, Len(pre)) = pre
Drop(s, n) == SubSeq(s, n + 1, Len(s))
Entities == {AMP, LT, GT, QUOT, APOS}
EntityChar(e) ==
    CASE e = AMP -> "&" [] e = LT -> "<" [] e = GT -> ">" [] e = QUOT -> "\"" [] e = APOS -> "'"

\* What an XML parser makes of character data: each of the five predefined
\* entity references becomes its character, left to right.
RECURSIVE XmlUnescape(_)
XmlUnescape(s) ==
    IF s = <<>> THEN <<>>
    ELSE IF \E e \in Entities : HasPrefix(s, e)
         THEN LET e == CHOOSE x \in Entities : HasPrefix(s, x)
              IN  <<EntityChar(e)>> \o XmlUnescape(Drop(s, Len(e)))
         ELSE <<Head(s)>> \o XmlUnescape(Tail(s))

\* no raw < > " ' and no & that does not start one of the five entities
WellEscaped(s) ==
    \A i \in 1..Len(s) :
        /\ s[i] \notin {"<", ">", "\"", "'"}
        /\ s[i] = "&" => \E e \in Entities : HasPrefix(Drop(s, i - 1), e)

\* C6: unescaping _escape_xml(s) gives back s, for every s, and
\* _escape_xml(s) holds no raw metacharacter.
C6_EscapeRoundTrip ==
    escOut.done => (XmlUnescape(escOut.text) = escIn /\ WellEscaped(escOut.text))

\* a text that already reads as an entity
C6_Witness == escOut.done /\ escIn = LT /\ escOut.text = AMP \o <<"l", "t", ";">>

\* ------------------------------------- the worksheet-builder specification
\* values of every kind a cell can hold: an int, a str of digits, a float, a
\* str with metacharacters, an object that is neither number nor str, a bool
WsValues ==
    <<IntV(42), StrV(<<"4", "2">>), FloatV(<<"3", ".", "1", "4">>),
      StrV(<<"a", "&", "<">>), NoneV, BoolV(TRUE)>>

\* a row of n cells that runs through WsValues from its p-th value on
PatternRow(n, p) == [k \in 1..n |-> WsValues[((k - 1 + p) % Len(WsValues)) + 1]]

WsRowSet ==
    {PatternRow(n, p) : n \in 0..MaxShort, p \in 0..(Len(WsValues) - 1)}
        \cup {PatternRow(MaxCols, 0)}

WsHeaderSet == {PatternRow(n, 0) : n \in (0..MaxShort) \cup {MaxCols}}

WsRowsSet == UNION {[1..r -> WsRowSet] : r \in 0..MaxRows}

WsInit ==
    /\ sheets = <<>>
    /\ staging = [exists |-> FALSE, files |-> NoFiles]
    /\ archive = [state |-> "absent", entries |-> NoFiles]
    /\ call = Call("__init__", "", "", FALSE)
    /\ ioFaults = 0
    /\ escIn = <<>> /\ escOut = NotEscaped
    /\ \E h \in WsHeaderSet, rs \in WsRowsSet :
          wsSheet = [name |-> "Data", headers |-> h, rows |-> rs]
    /\ wsDoc = <<>>

\* _create_worksheet(temp_dir, sheet_num, sheet_data) builds its document
_create_worksheet ==
    /\ wsDoc = <<>>
    /\ wsDoc' = WorksheetContent(wsSheet)
    /\ UNCHANGED <<sheets, staging, archive, call, ioFaults, wsSheet, escIn, escOut>>

WsNext == _create_worksheet

SpecWs == WsInit /\ [][WsNext]_vars

WsBuilt == wsDoc # <<>>

\* C4: the document has r+1 row elements numbered 1..r+1 in order; row 1
\* holds h cells, the row numbered i+2 holds len(row_i) cells, and every
\* cell's coordinate ends in the number of its row.
C4_RowsAndCells ==
    WsBuilt =>
        /\ Len(wsDoc) = Len(wsSheet.rows) + 1
        /\ \A n \in 1..Len(wsDoc) : wsDoc[n].r = n
        /\ Len(wsDoc[1].c) = Len(wsSheet.headers)
        /\ \A i \in 0..(Len(wsSheet.rows) - 1) :
               \E n \in 1..Len(wsDoc) :
                   /\ wsDoc[n].r = i + 2
                   /\ Len(wsDoc[n].c) = Len(wsSheet.rows[i + 1])
        /\ \A n \in 1..Len(wsDoc) : \A k \in 1..Len(wsDoc[n].c) :
               wsDoc[n].c[k].r[2] = wsDoc[n].r

\* two data rows, one shorter and one longer than the header row
C4_Witness ==
    /\ WsBuilt
    /\ Len(wsSheet.rows) = 2
    /\ Len(wsSheet.rows[1]) < Len(wsSheet.headers)
    /\ Len(wsSheet.rows[2]) > Len(wsSheet.headers)
    /\ Len(wsDoc[3].c) = MaxCols

\* C5: column index 0..25 gives the letters A..Z, and no cell is emitted
\* with a column that is not a column name (the document holds one character
\* per column, and a character is a column name when it is a letter A..Z).
C5_ColumnsAreLetters ==
    WsBuilt =>
        \A n \in 1..Len(wsDoc) : \A k \in 1..Len(wsDoc[n].c) :
            /\ wsDoc[n].c[k].r[1] \in ORD_A..(ORD_A + 25)
            /\ k - 1 \in 0..25 => wsDoc[n].c[k].r[1] = ORD_A + (k - 1)

\* C7: a data cell holding an int (a bool is an int) or a float is
\* <c r=coord><v>value</v></c> without t; any other data cell, and every
\* header, is an inlineStr cell holding the escaped text of the value.
C7_NumbersBareOthersInline ==
    WsBuilt =>
        /\ \A k \in 1..Len(wsSheet.headers) :
               LET c == wsDoc[1].c[k] IN
               /\ c.r = <<ORD_A + (k - 1), 1>>
               /\ c.t = "inlineStr" /\ c.child = "is"
               /\ WellEscaped(c.text) /\ XmlUnescape(c.text) = pystr(wsSheet.headers[k])
        /\ \A i \in 1..Len(wsSheet.rows) : \A k \in 1..Len(wsSheet.rows[i]) :
               LET v == wsSheet.rows[i][k]
                   c == wsDoc[i + 1].c[k]
               IN  /\ c.r = <<ORD_A + (k - 1), i + 1>>
                   /\ v.type \in {"int", "bool", "float"} =>
                          (c.t = "" /\ c.child = "v" /\ c.text = pystr(v))
                   /\ v.type \notin {"int", "bool", "float"} =>
                          (c.t = "inlineStr" /\ c.child = "is"
                              /\ WellEscaped(c.text) /\ XmlUnescape(c.text) = pystr(v))

\* 42 next to "42": the same text, the first bare and the second inline; and
\* a header that is a number
C7_Witness ==
    /\ WsBuilt
    /\ Len(wsSheet.rows) >= 1 /\ Len(wsSheet.rows[1]) >= 2
    /\ wsSheet.rows[1][1] = IntV(42) /\ wsSheet.rows[1][2] = StrV(<<"4", "2">>)
    /\ wsDoc[2].c[1] = [r |-> <<ORD_A, 2>>, t |-> "", child |-> "v", text |-> <<"4", "2">>]
    /\ wsDoc[2].c[2] = [r |-> <<ORD_A + 1, 2>>, t |-> "inlineStr", child |-> "is",
                        text |-> <<"4", "2">>]
    /\ Len(wsSheet.headers) >= 1 /\ wsSheet.headers[1].type = "int"
    /\ wsDoc[1].c[1].t = "inlineStr"

====
